---- MODULE Spec2Model ----
(***************************************************************************)
(* Samsung SyncThru printer sensors                                        *)
(* (homeassistant/components/syncthru/sensor.py).                          *)
(*                                                                         *)
(* The module models the sensor platform: async_setup_entry builds the     *)
(* list of sensor entities from the SyncThru object the coordinator holds  *)
(* at setup, every entity keeps the reference it read from                 *)
(* coordinator.data in its constructor, and the properties (unique_id,     *)
(* native_value, extra_state_attributes, ...) read through that reference. *)
(*                                                                         *)
(* Python values are tagged records so that None, strings and integers can *)
(* be compared with each other; dicts are functions from keys to values.   *)
(* Objects live in a heap (object id -> SyncThru snapshot); a reference is *)
(* an object id, so "the same instance" is equality of ids.                *)
(***************************************************************************)
EXTENDS Integers, Sequences, FiniteSets, TLC

VARIABLES heap, coordinator, entities, pc, obs

vars == <<heap, coordinator, entities, pc, obs>>

(***************************************************************************)
(* Python values                                                           *)
(***************************************************************************)
None == [t |-> "None"]
Str(s) == [t |-> "str", v |-> s]
IntV(n) == [t |-> "int", v |-> n]
KeyError == [t |-> "KeyError"]

\* the empty dict {}
EmptyDict == [k \in {} |-> None]

\* d.get(k, default)
Get(d, k, default) == IF k \in DOMAIN d THEN d[k] ELSE default

\* d.get(k): the default is None
GetOrNone(d, k) == Get(d, k, None)

\* a dict with one item
Item(k, val) == [x \in {k} |-> val]

\* Python truthiness of a value: None and "" are falsy
Truthy(val) == val # None /\ val # Str("")

\* str(n) of a small non-negative integer, as an f-string formats it
Digits == <<"0", "1", "2", "3", "4", "5", "6", "7", "8", "9">>
ToStr(n) == Digits[n + 1]

(***************************************************************************)
(* Module constants of sensor.py                                           *)
(***************************************************************************)
COLORS == <<"black", "cyan", "magenta", "yellow">>
DRUM_COLORS == COLORS
TONER_COLORS == COLORS
TRAYS == <<1, 2, 3, 4, 5>>
OUTPUT_TRAYS == <<0, 1, 2, 3, 4, 5>>
PERCENTAGE == "%"

SYNCTHRU_STATE_HUMAN ==
    [code \in {"INVALID", "OFFLINE", "NORMAL", "UNKNOWN", "WARNING", "TESTING", "ERROR"} |->
        CASE code = "INVALID" -> "invalid"
          [] code = "OFFLINE" -> "unreachable"
          [] code = "NORMAL" -> "normal"
          [] code = "UNKNOWN" -> "unknown"
          [] code = "WARNING" -> "warning"
          [] code = "TESTING" -> "testing"
          [] code = "ERROR" -> "error"]

Range(seq) == {seq[i] : i \in DOMAIN seq}

(***************************************************************************)
(* The SyncThru object (pysyncthru), as the sensors use it.  A snapshot is *)
(* a record of what the accessors return.                                  *)
(***************************************************************************)
device_status(printer) == printer.device_status
device_status_details(printer) == printer.device_status_details
serial_number(printer) == printer.serial_number

\* the dict d without the keys whose entry is the empty dict
Supported(d) == [k \in {x \in DOMAIN d : d[x] # EmptyDict} |-> d[k]]

toner_status(printer, filter_supported) ==
    IF filter_supported THEN Supported(printer.toner) ELSE printer.toner
drum_status(printer, filter_supported) ==
    IF filter_supported THEN Supported(printer.drum) ELSE printer.drum
input_tray_status(printer, filter_supported) ==
    IF filter_supported THEN Supported(printer.input_tray) ELSE printer.input_tray
output_tray_status(printer) == printer.output_tray

\* "for key in d": the keys of d in the order the library inserts them
Keys(d, order) == SelectSeq(order, LAMBDA k : k \in DOMAIN d)

(***************************************************************************)
(* The sensor classes.  An entity is a record of its instance attributes;  *)
(* cls is its class, syncthru the reference read from coordinator.data in  *)
(* the constructor.  _color and _number are None in the classes that do    *)
(* not set them.                                                           *)
(***************************************************************************)
SyncThruSensor(coord, name) ==
    [cls |-> "SyncThruSensor",
     syncthru |-> coord.data,
     _name |-> name,
     _icon |-> "mdi:printer",
     _unit_of_measurement |-> None,
     _id_suffix |-> "",
     _color |-> None,
     _number |-> None]

SyncThruMainSensor(coord, name) ==
    [SyncThruSensor(coord, name) EXCEPT
        !.cls = "SyncThruMainSensor",
        !._id_suffix = "_main"]

SyncThruTonerSensor(coord, name, color) ==
    [SyncThruSensor(coord, name) EXCEPT
        !.cls = "SyncThruTonerSensor",
        !._name = name \o " Toner " \o color,
        !._color = Str(color),
        !._unit_of_measurement = Str(PERCENTAGE),
        !._id_suffix = "_toner_" \o color]

SyncThruDrumSensor(coord, name, color) ==
    [SyncThruSensor(coord, name) EXCEPT
        !.cls = "SyncThruDrumSensor",
        !._name = name \o " Drum " \o color,
        !._color = Str(color),
        !._unit_of_measurement = Str(PERCENTAGE),
        !._id_suffix = "_drum_" \o color]

SyncThruInputTraySensor(coord, name, number) ==
    [SyncThruSensor(coord, name) EXCEPT
        !.cls = "SyncThruInputTraySensor",
        !._name = name \o " Tray " \o ToStr(number),
        !._number = IntV(number),
        !._id_suffix = "_tray_" \o ToStr(number)]

\* a copy-and-paste slip: the output tray takes the input tray's suffix
OutputTraySuffixOfInputTray(coord, name, number) ==
    [SyncThruSensor(coord, name) EXCEPT
        !.cls = "SyncThruOutputTraySensor",
        !._name = name \o " Output Tray " \o ToStr(number),
        !._number = IntV(number),
        !._id_suffix = "_tray_" \o ToStr(number)]

SyncThruOutputTraySensor(coord, name, number) ==
    [SyncThruSensor(coord, name) EXCEPT
        !.cls = "SyncThruOutputTraySensor",
        !._name = name \o " Output Tray " \o ToStr(number),
        !._number = IntV(number),
        !._id_suffix = "_output_tray_" \o ToStr(number)]

(***************************************************************************)
(* The properties.  self.syncthru is the object the entity's reference     *)
(* points to; h is the heap the reference is resolved in.                  *)
(***************************************************************************)
\* a mix-up: the main sensor reads coordinator.data, the others their own reference
SyncthruOfCoordinatorForMain(self) ==
    IF self.cls = "SyncThruMainSensor" THEN coordinator.data ELSE self.syncthru

\* the reference self.syncthru
self_syncthru(self) == self.syncthru

\* the object self.syncthru refers to
Syncthru(self, h) == h[self_syncthru(self)]

\* "if serial is not None" in place of "if serial"
UniqueIdOfAnySerial(self, h) ==
    LET serial == serial_number(Syncthru(self, h))
    IN  IF serial # None THEN Str(serial.v \o self._id_suffix) ELSE None

unique_id(self, h) ==
    LET serial == serial_number(Syncthru(self, h))
    IN  IF Truthy(serial) THEN Str(serial.v \o self._id_suffix) ELSE None

name(self) == self._name
icon(self) == self._icon
native_unit_of_measurement(self) == self._unit_of_measurement

\* a table with a wrong label, and a lookup with a default in place of indexing
MainValueOfShiftedTable(self, h) ==
    LET code == device_status(Syncthru(self, h))
    IN  IF code \in DOMAIN SYNCTHRU_STATE_HUMAN
        THEN Str(IF code = "OFFLINE" THEN "offline" ELSE SYNCTHRU_STATE_HUMAN[code])
        ELSE Str("unknown")

\* the table is indexed without a default: a code that is no key raises KeyError
SyncThruMainSensor_native_value(self, h) ==
    LET code == device_status(Syncthru(self, h))
    IN  IF code \in DOMAIN SYNCTHRU_STATE_HUMAN
        THEN Str(SYNCTHRU_STATE_HUMAN[code])
        ELSE KeyError

SyncThruMainSensor_extra_state_attributes(self, h) ==
    Item("display_text", device_status_details(Syncthru(self, h)))

\* indexing the status dict in place of .get(color, {})
TonerAttributesByIndex(self, h) ==
    LET d == toner_status(Syncthru(self, h), FALSE)
    IN  IF self._color.v \in DOMAIN d THEN d[self._color.v] ELSE KeyError

SyncThruTonerSensor_extra_state_attributes(self, h) ==
    Get(toner_status(Syncthru(self, h), FALSE), self._color.v, EmptyDict)

SyncThruTonerSensor_native_value(self, h) ==
    GetOrNone(Get(toner_status(Syncthru(self, h), FALSE), self._color.v, EmptyDict),
              "remaining")

SyncThruDrumSensor_extra_state_attributes(self, h) ==
    Get(drum_status(Syncthru(self, h), FALSE), self._color.v, EmptyDict)

SyncThruDrumSensor_native_value(self, h) ==
    GetOrNone(Get(drum_status(Syncthru(self, h), FALSE), self._color.v, EmptyDict),
              "remaining")

SyncThruInputTraySensor_extra_state_attributes(self, h) ==
    Get(input_tray_status(Syncthru(self, h), FALSE), self._number.v, EmptyDict)

SyncThruInputTraySensor_native_value(self, h) ==
    LET tray_state ==
            GetOrNone(Get(input_tray_status(Syncthru(self, h), FALSE),
                          self._number.v, EmptyDict), "newError")
    IN  IF tray_state = Str("") THEN Str("Ready") ELSE tray_state

SyncThruOutputTraySensor_extra_state_attributes(self, h) ==
    Get(output_tray_status(Syncthru(self, h)), self._number.v, EmptyDict)

\* "if not tray_state" in place of 'if tray_state == ""'
OutputTrayValueReadyWhenFalsy(self, h) ==
    LET tray_state ==
            GetOrNone(Get(output_tray_status(Syncthru(self, h)),
                          self._number.v, EmptyDict), "status")
    IN  IF ~Truthy(tray_state) THEN Str("Ready") ELSE tray_state

SyncThruOutputTraySensor_native_value(self, h) ==
    LET tray_state ==
            GetOrNone(Get(output_tray_status(Syncthru(self, h)),
                          self._number.v, EmptyDict), "status")
    IN  IF tray_state = Str("") THEN Str("Ready") ELSE tray_state

\* the property of the entity's class
native_value(self, h) ==
    CASE self.cls = "SyncThruMainSensor" -> SyncThruMainSensor_native_value(self, h)
      [] self.cls = "SyncThruTonerSensor" -> SyncThruTonerSensor_native_value(self, h)
      [] self.cls = "SyncThruDrumSensor" -> SyncThruDrumSensor_native_value(self, h)
      [] self.cls = "SyncThruInputTraySensor" -> SyncThruInputTraySensor_native_value(self, h)
      [] self.cls = "SyncThruOutputTraySensor" -> SyncThruOutputTraySensor_native_value(self, h)

extra_state_attributes(self, h) ==
    CASE self.cls = "SyncThruMainSensor" -> SyncThruMainSensor_extra_state_attributes(self, h)
      [] self.cls = "SyncThruTonerSensor" -> SyncThruTonerSensor_extra_state_attributes(self, h)
      [] self.cls = "SyncThruDrumSensor" -> SyncThruDrumSensor_extra_state_attributes(self, h)
      [] self.cls = "SyncThruInputTraySensor" ->
            SyncThruInputTraySensor_extra_state_attributes(self, h)
      [] self.cls = "SyncThruOutputTraySensor" ->
            SyncThruOutputTraySensor_extra_state_attributes(self, h)

(***************************************************************************)
(* Bounds and inputs                                                       *)
(***************************************************************************)
\* polls after setup
MaxPolls == 2

\* config_entry.data[CONF_NAME]
ConfName == "Printer"

StatusCodes == DOMAIN SYNCTHRU_STATE_HUMAN

\* sub-status entries: empty, with the field the sensor reads, without it
Remaining(n) == Item("remaining", IntV(n))
NewError(s) == Item("newError", Str(s))
Status(s) == Item("status", Str(s))
Opt == Item("opt", IntV(1))

\* The maps a printer reports.  Each kind has the map without keys, a map with
\* a populated key, an empty entry, an entry without the field read and missing
\* keys, and a map where the second map's empty key is populated and its
\* populated key is gone.
TonerMaps ==
    << EmptyDict,
       Item("black", Remaining(42)) @@ Item("cyan", EmptyDict) @@ Item("magenta", Opt),
       Item("cyan", Remaining(7)) @@ Item("yellow", Remaining(0)) >>

DrumMaps ==
    << EmptyDict,
       Item("black", Remaining(90)) @@ Item("yellow", EmptyDict) @@ Item("cyan", Opt),
       Item("yellow", Remaining(15)) >>

InputTrayMaps ==
    << EmptyDict,
       Item(1, NewError("")) @@ Item(2, NewError("jam")) @@ Item(3, EmptyDict) @@ Item(4, Opt),
       Item(3, NewError("")) @@ Item(5, NewError("empty")) >>

OutputTrayMaps ==
    << EmptyDict,
       Item(0, EmptyDict) @@ Item(1, Status("")) @@ Item(2, Status("full")) @@ Item(3, Opt),
       Item(0, Status("")) @@ Item(4, Status("jam")) >>

\* the text the printer displays in a status
DetailsOf(code) == Str("text of " \o code)

\* the snapshots with the given status codes, serial numbers and maps
SnapshotsOf(codes, serials, toners, drums, trays, otrays) ==
    { [device_status |-> c,
       device_status_details |-> DetailsOf(c),
       serial_number |-> s,
       toner |-> tn, drum |-> d, input_tray |-> it, output_tray |-> ot] :
        c \in codes, s \in serials, tn \in toners, d \in drums, it \in trays, ot \in otrays }

\* the status codes and serial numbers of the polled printer
PolledCodes == {"NORMAL", "WARNING", "OFFLINE"}
PolledSerials == {None, Str(""), Str("SN1")}

\* what the first refresh, before setup, may return
PolledSnapshots ==
    SnapshotsOf(PolledCodes, PolledSerials, Range(TonerMaps), Range(DrumMaps),
                Range(InputTrayMaps), Range(OutputTrayMaps))

\* What the next poll may return after old: the printer's readings change one
\* at a time, so the new snapshot differs from old in at most one accessor.
\* Every polled snapshot is reached from every other in at most six polls.
NextSnapshots(old) ==
    {[old EXCEPT !.device_status = c, !.device_status_details = DetailsOf(c)] :
        c \in PolledCodes}
    \cup {[old EXCEPT !.serial_number = s] : s \in PolledSerials}
    \cup {[old EXCEPT !.toner = m] : m \in Range(TonerMaps)}
    \cup {[old EXCEPT !.drum = m] : m \in Range(DrumMaps)}
    \cup {[old EXCEPT !.input_tray = m] : m \in Range(InputTrayMaps)}
    \cup {[old EXCEPT !.output_tray = m] : m \in Range(OutputTrayMaps)}

\* nothing read yet
NoObs == [prop |-> "", value |-> None]

(***************************************************************************)
(* Setup                                                                   *)
(***************************************************************************)
\* the main sensor appended after the others
EntitiesMainLast(coord, printer) ==
    LET supp_toner == toner_status(printer, TRUE)
        supp_drum == drum_status(printer, TRUE)
        supp_tray == input_tray_status(printer, TRUE)
        supp_output_tray == output_tray_status(printer)
        pname == ConfName
        toner_keys == Keys(supp_toner, COLORS)
        drum_keys == Keys(supp_drum, COLORS)
        tray_keys == Keys(supp_tray, TRAYS)
        output_tray_keys == Keys(supp_output_tray, OUTPUT_TRAYS)
    IN  [i \in 1..Len(toner_keys) |-> SyncThruTonerSensor(coord, pname, toner_keys[i])]
        \o [i \in 1..Len(drum_keys) |-> SyncThruDrumSensor(coord, pname, drum_keys[i])]
        \o [i \in 1..Len(tray_keys) |-> SyncThruInputTraySensor(coord, pname, tray_keys[i])]
        \o [i \in 1..Len(output_tray_keys) |->
                SyncThruOutputTraySensor(coord, pname, output_tray_keys[i])]
        \o <<SyncThruMainSensor(coord, pname)>>

\* filter_supported left out for the toners
EntitiesTonerUnfiltered(coord, printer) ==
    LET supp_toner == toner_status(printer, FALSE)
        supp_drum == drum_status(printer, TRUE)
        supp_tray == input_tray_status(printer, TRUE)
        supp_output_tray == output_tray_status(printer)
        pname == ConfName
        toner_keys == Keys(supp_toner, COLORS)
        drum_keys == Keys(supp_drum, COLORS)
        tray_keys == Keys(supp_tray, TRAYS)
        output_tray_keys == Keys(supp_output_tray, OUTPUT_TRAYS)
    IN  <<SyncThruMainSensor(coord, pname)>>
        \o [i \in 1..Len(toner_keys) |-> SyncThruTonerSensor(coord, pname, toner_keys[i])]
        \o [i \in 1..Len(drum_keys) |-> SyncThruDrumSensor(coord, pname, drum_keys[i])]
        \o [i \in 1..Len(tray_keys) |-> SyncThruInputTraySensor(coord, pname, tray_keys[i])]
        \o [i \in 1..Len(output_tray_keys) |->
                SyncThruOutputTraySensor(coord, pname, output_tray_keys[i])]

\* the list async_setup_entry passes to async_add_entities: one sensor per key, in
\* the order of the four loops
Entities(coord, printer) ==
    LET supp_toner == toner_status(printer, TRUE)
        supp_drum == drum_status(printer, TRUE)
        supp_tray == input_tray_status(printer, TRUE)
        supp_output_tray == output_tray_status(printer)
        pname == ConfName
        toner_keys == Keys(supp_toner, COLORS)
        drum_keys == Keys(supp_drum, COLORS)
        tray_keys == Keys(supp_tray, TRAYS)
        output_tray_keys == Keys(supp_output_tray, OUTPUT_TRAYS)
    IN  <<SyncThruMainSensor(coord, pname)>>
        \o [i \in 1..Len(toner_keys) |-> SyncThruTonerSensor(coord, pname, toner_keys[i])]
        \o [i \in 1..Len(drum_keys) |-> SyncThruDrumSensor(coord, pname, drum_keys[i])]
        \o [i \in 1..Len(tray_keys) |-> SyncThruInputTraySensor(coord, pname, tray_keys[i])]
        \o [i \in 1..Len(output_tray_keys) |->
                SyncThruOutputTraySensor(coord, pname, output_tray_keys[i])]

\* setup run again after every refresh
SetupOnEveryRefresh ==
    /\ pc \in {"unset", "ready"}
    /\ entities' = Entities(coordinator, heap[coordinator.data])
    /\ pc' = "ready"
    /\ heap' = [i \in {coordinator.data} |-> heap[i]]
    /\ UNCHANGED <<coordinator, obs>>

\* the platform is set up once per config entry
async_setup_entry ==
    /\ pc = "unset"
    /\ entities' = Entities(coordinator, heap[coordinator.data])
    /\ pc' = "ready"
    /\ UNCHANGED <<heap, coordinator, obs>>

(***************************************************************************)
(* Refresh: the coordinator stores the object its update method returns in *)
(* coordinator.data.  Every successful poll produces a new snapshot object; *)
(* an object no reference points to any more is dropped from the heap.     *)
(***************************************************************************)
Live(ents, coord) == {ents[i].syncthru : i \in DOMAIN ents} \cup {coord.data}

async_refresh ==
    /\ pc = "ready"
    /\ coordinator.data <= MaxPolls
    /\ \E printer \in NextSnapshots(heap[coordinator.data]) :
        LET new == coordinator.data + 1
            coord == [coordinator EXCEPT !.data = new]
        IN  /\ coordinator' = coord
            /\ heap' = [i \in Live(entities, coord) |->
                            IF i = new THEN printer ELSE heap[i]]
    /\ UNCHANGED <<entities, pc, obs>>

Init ==
    /\ \E printer \in PolledSnapshots : heap = <<printer>>
    /\ coordinator = [data |-> 1]
    /\ entities = <<>>
    /\ pc = "unset"
    /\ obs = NoObs

Next ==
    \/ async_setup_entry
    \/ async_refresh

Spec == Init /\ [][Next]_vars

(***************************************************************************)
(* Reading the properties of one sensor.  The sensor is built by its       *)
(* class's constructor for any key of the module's key ranges on a         *)
(* coordinator that holds any snapshot, with any status code (one that is  *)
(* no key of SYNCTHRU_STATE_HUMAN included); each action is the host       *)
(* reading one property, and obs is what the read returned.                *)
(***************************************************************************)
ReadCodes == StatusCodes \cup {"BOGUS"}

ReadSnapshots ==
    SnapshotsOf(ReadCodes, PolledSerials, Range(Tail(TonerMaps)), Range(Tail(DrumMaps)),
                Range(Tail(InputTrayMaps)), Range(Tail(OutputTrayMaps)))

Sensors(coord) ==
    {SyncThruMainSensor(coord, ConfName)}
    \cup {SyncThruTonerSensor(coord, ConfName, c) : c \in Range(TONER_COLORS)}
    \cup {SyncThruDrumSensor(coord, ConfName, c) : c \in Range(DRUM_COLORS)}
    \cup {SyncThruInputTraySensor(coord, ConfName, n) : n \in Range(TRAYS)}
    \cup {SyncThruOutputTraySensor(coord, ConfName, n) : n \in Range(OUTPUT_TRAYS)}

InitRead ==
    /\ \E printer \in ReadSnapshots : heap = <<printer>>
    /\ coordinator = [data |-> 1]
    /\ \E sensor \in Sensors(coordinator) : entities = <<sensor>>
    /\ pc = "ready"
    /\ obs = NoObs

Observe(prop, value) ==
    /\ pc = "ready"
    /\ obs' = [prop |-> prop, value |-> value]
    /\ UNCHANGED <<heap, coordinator, entities, pc>>

read_unique_id == \E i \in DOMAIN entities : Observe("unique_id", unique_id(entities[i], heap))
read_name == \E i \in DOMAIN entities : Observe("name", Str(name(entities[i])))
read_icon == \E i \in DOMAIN entities : Observe("icon", Str(icon(entities[i])))
read_native_unit_of_measurement ==
    \E i \in DOMAIN entities :
        Observe("native_unit_of_measurement", native_unit_of_measurement(entities[i]))
read_native_value ==
    \E i \in DOMAIN entities : Observe("native_value", native_value(entities[i], heap))
read_extra_state_attributes ==
    \E i \in DOMAIN entities :
        Observe("extra_state_attributes", extra_state_attributes(entities[i], heap))

NextRead ==
    \/ read_unique_id
    \/ read_name
    \/ read_icon
    \/ read_native_unit_of_measurement
    \/ read_native_value
    \/ read_extra_state_attributes

SpecRead == InitRead /\ [][NextRead]_vars

(***************************************************************************)
(* Properties of the catalog and of the refresh (specification Spec)       *)
(***************************************************************************)
\* the snapshot coordinator.data referred to when async_setup_entry ran
SetupSnapshot == heap[1]

\* the snapshot the coordinator holds now
CurrentSnapshot == heap[coordinator.data]

\* the position of a class in the order async_setup_entry appends in
Rank(cls) ==
    CASE cls = "SyncThruMainSensor" -> 0
      [] cls = "SyncThruTonerSensor" -> 1
      [] cls = "SyncThruDrumSensor" -> 2
      [] cls = "SyncThruInputTraySensor" -> 3
      [] cls = "SyncThruOutputTraySensor" -> 4

\* the positions of the entities of a class with a color or a number
ColorSensors(cls, color) ==
    {i \in DOMAIN entities : entities[i].cls = cls /\ entities[i]._color = Str(color)}
NumberSensors(cls, number) ==
    {i \in DOMAIN entities : entities[i].cls = cls /\ entities[i]._number = IntV(number)}

Populated(d, k) == k \in DOMAIN d /\ d[k] # EmptyDict

\* C1: the list built at setup has exactly one main sensor, in first place,
\* then the toner, the drum, the input tray and the output tray sensors in this
\* order; a setup snapshot whose four maps have no key gives the list of the
\* main sensor alone.
C1_MainFirstThenKinds ==
    pc = "ready" =>
        /\ Len(entities) >= 1
        /\ entities[1] = SyncThruMainSensor([data |-> 1], ConfName)
        /\ \A i \in 2..Len(entities) : entities[i].cls # "SyncThruMainSensor"
        /\ \A i, j \in DOMAIN entities :
                i < j => Rank(entities[i].cls) <= Rank(entities[j].cls)
        /\ (/\ DOMAIN SetupSnapshot.toner = {}
            /\ DOMAIN SetupSnapshot.drum = {}
            /\ DOMAIN SetupSnapshot.input_tray = {}
            /\ DOMAIN SetupSnapshot.output_tray = {})
           => Len(entities) = 1

\* a catalog with a sensor of each of the five classes
C1_Witness ==
    /\ pc = "ready"
    /\ {entities[i].cls : i \in DOMAIN entities} =
        {"SyncThruMainSensor", "SyncThruTonerSensor", "SyncThruDrumSensor",
         "SyncThruInputTraySensor", "SyncThruOutputTraySensor"}

\* C2: a toner, drum or input tray sensor exists for a key exactly when the
\* setup snapshot has a non-empty entry for the key; an output tray sensor
\* exists for a key exactly when the key is in the setup snapshot's output tray
\* map, whatever its entry; no key has two sensors of a class.
C2_AsymmetricFilter ==
    pc = "ready" =>
        /\ \A c \in Range(COLORS) :
            /\ Cardinality(ColorSensors("SyncThruTonerSensor", c)) =
                    IF Populated(SetupSnapshot.toner, c) THEN 1 ELSE 0
            /\ Cardinality(ColorSensors("SyncThruDrumSensor", c)) =
                    IF Populated(SetupSnapshot.drum, c) THEN 1 ELSE 0
        /\ \A n \in Range(TRAYS) :
            Cardinality(NumberSensors("SyncThruInputTraySensor", n)) =
                IF Populated(SetupSnapshot.input_tray, n) THEN 1 ELSE 0
        /\ \A n \in Range(OUTPUT_TRAYS) :
            Cardinality(NumberSensors("SyncThruOutputTraySensor", n)) =
                IF n \in DOMAIN SetupSnapshot.output_tray THEN 1 ELSE 0

\* a catalog with an output tray sensor for an empty entry and without a toner
\* sensor for an empty entry
C2_Witness ==
    /\ pc = "ready"
    /\ \E n \in Range(OUTPUT_TRAYS) :
        /\ n \in DOMAIN SetupSnapshot.output_tray
        /\ SetupSnapshot.output_tray[n] = EmptyDict
        /\ NumberSensors("SyncThruOutputTraySensor", n) # {}
    /\ \E c \in Range(COLORS) :
        /\ c \in DOMAIN SetupSnapshot.toner
        /\ SetupSnapshot.toner[c] = EmptyDict
        /\ ColorSensors("SyncThruTonerSensor", c) = {}

\* the entity with its reference set to the coordinator's current object
OnCurrent(self) == [self EXCEPT !.syncthru = coordinator.data]

\* C5: after any polls, every sensor's native_value and extra_state_attributes
\* are the ones derived from the snapshot the coordinator holds now.
C5_ReadsCurrentSnapshot ==
    pc = "ready" =>
        \A i \in DOMAIN entities :
            /\ native_value(entities[i], heap) = native_value(OnCurrent(entities[i]), heap)
            /\ extra_state_attributes(entities[i], heap) =
                    extra_state_attributes(OnCurrent(entities[i]), heap)

\* C6: once the platform is set up, no step changes the list of entities.
C6_CatalogFixed == [][pc = "ready" => entities' = entities]_vars

\* after a refresh a key that was empty at setup is populated and has no
\* sensor, and a key that has a sensor is gone
C6_Witness ==
    /\ pc = "ready"
    /\ coordinator.data > 1
    /\ \E c \in Range(COLORS) :
        /\ ~Populated(SetupSnapshot.toner, c)
        /\ Populated(CurrentSnapshot.toner, c)
        /\ ColorSensors("SyncThruTonerSensor", c) = {}
    /\ \E c \in Range(COLORS) :
        /\ c \notin DOMAIN CurrentSnapshot.toner
        /\ ColorSensors("SyncThruTonerSensor", c) # {}

\* C9: all entities of the catalog read through a reference to the same object.
C9_SameInstance ==
    \A i, j \in DOMAIN entities :
        self_syncthru(entities[i]) = self_syncthru(entities[j])

\* several sensors, after a refresh has published another object
C9_Witness ==
    /\ pc = "ready"
    /\ Len(entities) >= 3
    /\ coordinator.data > 1
    /\ CurrentSnapshot # SetupSnapshot

\* C10: the _id_suffix values of the catalog are pairwise distinct, and two
\* entities never have the same unique_id unless it is None for lack of a
\* serial number.
C10_DistinctIds ==
    pc = "ready" =>
        \A i, j \in DOMAIN entities :
            i # j =>
                /\ entities[i]._id_suffix # entities[j]._id_suffix
                /\ unique_id(entities[i], heap) # None
                    => unique_id(entities[i], heap) # unique_id(entities[j], heap)

\* a serial number, and an input tray and an output tray of the same number
C10_Witness ==
    /\ pc = "ready"
    /\ Truthy(serial_number(SetupSnapshot))
    /\ \E n \in Range(TRAYS) :
        /\ NumberSensors("SyncThruInputTraySensor", n) # {}
        /\ NumberSensors("SyncThruOutputTraySensor", n) # {}
    /\ \E c \in Range(COLORS) :
        /\ ColorSensors("SyncThruTonerSensor", c) # {}
        /\ ColorSensors("SyncThruDrumSensor", c) # {}

(***************************************************************************)
(* Properties of the reads (specification SpecRead)                        *)
(***************************************************************************)
\* the sensor read and the snapshot its reference points to
Sensor == entities[1]
Read == heap[Sensor.syncthru]

IsTray == Sensor.cls \in {"SyncThruInputTraySensor", "SyncThruOutputTraySensor"}
TrayMap == IF Sensor.cls = "SyncThruInputTraySensor" THEN Read.input_tray ELSE Read.output_tray
TrayField == IF Sensor.cls = "SyncThruInputTraySensor" THEN "newError" ELSE "status"

IsColor == Sensor.cls \in {"SyncThruTonerSensor", "SyncThruDrumSensor"}
ColorMap == IF Sensor.cls = "SyncThruTonerSensor" THEN Read.toner ELSE Read.drum

\* C3: the native_value of an input tray sensor (field newError) or an output
\* tray sensor (field status) is "Ready" when the field of the tray's entry is
\* the empty string, the field's value when it is not, and None when the tray's
\* number is no key of the map.
C3_TrayReadyOrField ==
    (obs.prop = "native_value" /\ IsTray) =>
        LET n == Sensor._number.v
        IN  /\ n \notin DOMAIN TrayMap => obs.value = None
            /\ (n \in DOMAIN TrayMap /\ TrayField \in DOMAIN TrayMap[n]) =>
                    obs.value = IF TrayMap[n][TrayField] = Str("")
                                THEN Str("Ready")
                                ELSE TrayMap[n][TrayField]

\* an output tray whose status is the empty string was read as "Ready"
C3_Witness ==
    /\ obs.prop = "native_value"
    /\ Sensor.cls = "SyncThruOutputTraySensor"
    /\ Sensor._number.v \in DOMAIN Read.output_tray
    /\ "status" \in DOMAIN Read.output_tray[Sensor._number.v]
    /\ Read.output_tray[Sensor._number.v]["status"] = Str("")
    /\ obs.value = Str("Ready")

\* C4: for a toner or drum sensor whose color is a key of its map, native_value
\* is the entry's remaining (None if the entry has none) and
\* extra_state_attributes is the entry; when the color is no key, native_value
\* is None and extra_state_attributes is the empty dict; no read raises.
C4_ColorEntryOrEmpty ==
    IsColor =>
        LET c == Sensor._color.v
        IN  /\ obs.prop = "native_value" =>
                obs.value = IF c \in DOMAIN ColorMap /\ "remaining" \in DOMAIN ColorMap[c]
                            THEN ColorMap[c]["remaining"]
                            ELSE None
            /\ obs.prop = "extra_state_attributes" =>
                obs.value = IF c \in DOMAIN ColorMap THEN ColorMap[c] ELSE EmptyDict
            /\ obs.prop \in {"native_value", "extra_state_attributes"} =>
                obs.value # KeyError

\* the attributes of a toner sensor whose color is no key were read as {}
C4_Witness ==
    /\ obs.prop = "extra_state_attributes"
    /\ Sensor.cls = "SyncThruTonerSensor"
    /\ Sensor._color.v \notin DOMAIN Read.toner
    /\ obs.value = EmptyDict

\* the value a read of the property returns in heap h
PropertyValue(prop, self, h) ==
    CASE prop = "unique_id" -> unique_id(self, h)
      [] prop = "name" -> Str(name(self))
      [] prop = "icon" -> Str(icon(self))
      [] prop = "native_unit_of_measurement" -> native_unit_of_measurement(self)
      [] prop = "native_value" -> native_value(self, h)
      [] prop = "extra_state_attributes" -> extra_state_attributes(self, h)

\* the heap with the serial number of the sensor's snapshot taken away
WithoutSerial == [heap EXCEPT ![Sensor.syncthru].serial_number = None]

\* C7: unique_id is the serial number followed by the sensor's _id_suffix when
\* the snapshot has a serial number, and None when it has none (None or the
\* empty string); every other property reads the same with and without a
\* serial number.
C7_UniqueIdOfSerial ==
    /\ obs.prop = "unique_id" =>
        obs.value = IF Read.serial_number \in {None, Str("")}
                    THEN None
                    ELSE Str(Read.serial_number.v \o Sensor._id_suffix)
    /\ obs.prop \notin {"", "unique_id"} =>
        obs.value = PropertyValue(obs.prop, Sensor, WithoutSerial)

\* the unique_id of the black toner of the printer SN1
C7_Witness ==
    /\ obs.prop = "unique_id"
    /\ Sensor.cls = "SyncThruTonerSensor"
    /\ Read.serial_number = Str("SN1")
    /\ obs.value = Str("SN1_toner_black")

\* C8: the main sensor's native_value is the label of the status code for the
\* seven codes, and the read raises KeyError for any other code.
C8_StateLabel ==
    (obs.prop = "native_value" /\ Sensor.cls = "SyncThruMainSensor") =>
        LET code == Read.device_status
        IN  obs.value =
                CASE code = "INVALID" -> Str("invalid")
                  [] code = "OFFLINE" -> Str("unreachable")
                  [] code = "NORMAL" -> Str("normal")
                  [] code = "UNKNOWN" -> Str("unknown")
                  [] code = "WARNING" -> Str("warning")
                  [] code = "TESTING" -> Str("testing")
                  [] code = "ERROR" -> Str("error")
                  [] OTHER -> KeyError

\* the main sensor of an unreachable printer was read
C8_Witness ==
    /\ obs.prop = "native_value"
    /\ Sensor.cls = "SyncThruMainSensor"
    /\ Read.device_status = "OFFLINE"
    /\ obs.value = Str("unreachable")

====
